---- MODULE Spec2Model ----
(***************************************************************************)
(* Priority scoring of orchestrator/priority.py: PriorityScorer.score_task, *)
(* PriorityScorer.rank_tasks and the batch entry point score_tasks.         *)
(*                                                                          *)
(* Units.  Time is counted in whole hours since 2026-01-01T00:00:00.        *)
(* Scores are kept in hundredths of a point (81.00 is 8100), the weighted   *)
(* sum before rounding in thousandths, so that round(total, 2) is a real    *)
(* rounding step.  A dict is a function from its keys; an absent key is a   *)
(* key outside its DOMAIN.  An Optional argument that is None is a key      *)
(* outside the DOMAIN of the keyword arguments.                             *)
(***************************************************************************)
EXTENDS Integers, Sequences, FiniteSets, TLC

VARIABLES
    op,          \* the public operation the caller invoked
    kwargs,      \* keyword arguments of a direct score_task call
    tasks,       \* argument of a direct rank_tasks call
    tasks_data,  \* argument of score_tasks
    now,         \* the wall clock, what datetime.now() returns
    pc,          \* "call", "loop" (inside score_tasks' for), "returned", "raised"
    scored,      \* score_tasks' local list; the for loop is at item Len(scored)+1
    reads,       \* the clock value datetime.now() gave for each item of scored
    ret,         \* the value returned to the caller
    exc          \* the exception that reached the caller, "none" if none

vars == <<op, kwargs, tasks, tasks_data, now, pc, scored, reads, ret, exc>>

----------------------------------------------------------------------------
(* Bounds of the model *)

MaxBatch == 3        \* longest list given to score_tasks and rank_tasks
MaxTicks == 1        \* hours the clock may advance during one score_tasks call
MaxPriority == 6     \* largest priority argument
MaxBlocking == 6     \* largest blocking_count argument
NegRange == 2        \* priority and blocking_count go down to -NegRange
MaxAgeDays == 21     \* oldest created_at, in days before the first clock value

HoursPerDay == 24
Now0 == 10 * HoursPerDay    \* 2026-01-11T00:00:00, the clock when the call starts

----------------------------------------------------------------------------
(* Python helpers *)

Get(d, key, default) == IF key \in DOMAIN d THEN d[key] ELSE default

Max(a, b) == IF a >= b THEN a ELSE b

Min(a, b) == IF a <= b THEN a ELSE b

\* str.lower()
lower(s) ==
    CASE s = "CRITICAL" -> "critical"
      [] s = "Hotfix"   -> "hotfix"
      [] s = "Bug"      -> "bug"
      [] OTHER          -> s

\* round(x, 2) of a value given in thousandths, result in hundredths
\* (round half to even, as Python rounds)
round2(x) ==
    LET q == x \div 10
        r == x % 10
    IN  IF r < 5 THEN q
        ELSE IF r > 5 THEN q + 1
        ELSE IF q % 2 = 0 THEN q ELSE q + 1

\* (a - b).days of two naive datetimes: timedelta normalises to days >= floor
timedelta_days(a, b) == (a - b) \div HoursPerDay

\* datetime.fromisoformat: ok = FALSE is ValueError; tz = TRUE is an aware datetime
fromisoformat(s) ==
    CASE s = "2026-01-01T00:00:00"       -> [ok |-> TRUE,  tz |-> FALSE, t |-> 0]
      [] s = "2026-01-01T01:00:00"       -> [ok |-> TRUE,  tz |-> FALSE, t |-> 1]
      [] s = "2026-01-11T12:00:00"       -> [ok |-> TRUE,  tz |-> FALSE, t |-> Now0 + 12]
      [] s = "2026-01-01T00:00:00+00:00" -> [ok |-> TRUE,  tz |-> TRUE,  t |-> 0]
      [] OTHER                           -> [ok |-> FALSE, tz |-> FALSE, t |-> 0]

----------------------------------------------------------------------------
(* PriorityScorer *)

\* the age and complexity weights exchanged
WEIGHTS_age_complexity_swapped ==
    [base_priority |-> 400, age |-> 150, complexity |-> 200,
     dependencies |-> 150, labels |-> 100]

\* WEIGHTS, in thousandths
WEIGHTS ==
    [base_priority |-> 400, age |-> 200, complexity |-> 150,
     dependencies |-> 150, labels |-> 100]

FactorNames == {"base_priority", "age", "complexity", "dependencies", "labels"}

URGENT_LABELS == {"urgent", "critical", "blocker", "hotfix"}

\* priorities 1..4 mapped to 75..0 instead of 100..25
base_score_from_four(priority) == Max(0, (4 - priority) * 25)

base_score(priority) == Max(0, (5 - priority) * 25)

\* created_at is a datetime [tz, t]; the subtraction of an aware datetime from
\* the naive datetime.now() raises TypeError
age_raises(kw) == "created_at" \in DOMAIN kw /\ kw.created_at.tz

age_score(kw, clock) ==
    IF "created_at" \in DOMAIN kw
    THEN Min(100, timedelta_days(clock, kw.created_at.t) * 5)
    ELSE 0

complexity_score(complexity) ==
    CASE complexity = "low"    -> 80
      [] complexity = "medium" -> 50
      [] complexity = "high"   -> 30
      [] OTHER                 -> 50

\* the cap of the dependencies factor left out
dependency_score_uncapped(blocking_count) == blocking_count * 20

dependency_score(blocking_count) == Min(100, blocking_count * 20)

\* the labels compared without lower-casing them
label_score_case_sensitive(kw) ==
    IF "labels" \in DOMAIN kw /\ kw.labels # <<>>
    THEN LET label_set == {kw.labels[n] : n \in 1..Len(kw.labels)}
         IN  IF label_set \cap URGENT_LABELS # {} THEN 100 ELSE 0
    ELSE 0

label_score(kw) ==
    IF "labels" \in DOMAIN kw /\ kw.labels # <<>>
    THEN LET label_set == {lower(kw.labels[n]) : n \in 1..Len(kw.labels)}
         IN  IF label_set \cap URGENT_LABELS # {} THEN 100 ELSE 0
    ELSE 0

compute_factors(kw, clock) ==
    [base_priority |-> base_score(kw.priority),
     age           |-> age_score(kw, clock),
     complexity    |-> complexity_score(Get(kw, "complexity", "medium")),
     dependencies  |-> dependency_score(Get(kw, "blocking_count", 0)),
     labels        |-> label_score(kw)]

RECURSIVE SumOver(_, _)
SumOver(f, keys) ==
    IF keys = {} THEN 0
    ELSE LET k == CHOOSE x \in keys : TRUE
         IN  f[k] + SumOver(f, keys \ {k})

total_score(factors) ==
    SumOver([k \in DOMAIN WEIGHTS |-> factors[k] * WEIGHTS[k]], DOMAIN WEIGHTS)

\* score_task: [exc, val]; val is the ScoredTask when exc = "none"
score_task(kw, clock) ==
    IF age_raises(kw)
    THEN [exc |-> "TypeError", val |-> <<>>]
    ELSE LET factors == compute_factors(kw, clock)
         IN  [exc |-> "none",
              val |-> [task_id      |-> kw.task_id,
                       title        |-> kw.title,
                       raw_priority |-> kw.priority,
                       score        |-> round2(total_score(factors)),
                       factors      |-> factors]]

\* sorted(seq, key=score, reverse=True): a stable sort, descending; equal
\* scores keep their input order
RECURSIVE insert_desc(_, _)
insert_desc(sortedSeq, x) ==
    IF sortedSeq = <<>> THEN <<x>>
    ELSE IF Head(sortedSeq).score >= x.score
         THEN <<Head(sortedSeq)>> \o insert_desc(Tail(sortedSeq), x)
         ELSE <<x>> \o sortedSeq

RECURSIVE sort_from(_, _)
sort_from(acc, seq) ==
    IF seq = <<>> THEN acc
    ELSE sort_from(insert_desc(acc, Head(seq)), Tail(seq))

\* reverse=True forgotten: a stable ascending sort
RECURSIVE insert_asc(_, _)
insert_asc(sortedSeq, x) ==
    IF sortedSeq = <<>> THEN <<x>>
    ELSE IF Head(sortedSeq).score <= x.score
         THEN <<Head(sortedSeq)>> \o insert_asc(Tail(sortedSeq), x)
         ELSE <<x>> \o sortedSeq

RECURSIVE sort_asc_from(_, _)
sort_asc_from(acc, seq) ==
    IF seq = <<>> THEN acc
    ELSE sort_asc_from(insert_asc(acc, Head(seq)), Tail(seq))

sorted_ascending(seq) == sort_asc_from(<<>>, seq)

\* sorted(...)[::-1] instead of reverse=True: descending, equal scores reversed
RECURSIVE reversed_seq(_)
reversed_seq(seq) ==
    IF seq = <<>> THEN <<>> ELSE Append(reversed_seq(Tail(seq)), Head(seq))

sorted_then_reversed(seq) == reversed_seq(sorted_ascending(seq))

sorted_by_score_reverse(seq) == sort_from(<<>>, seq)

rank_tasks(ts) == sorted_by_score_reverse(ts)

----------------------------------------------------------------------------
(* score_tasks *)

\* a ValueError of fromisoformat swallowed: the timestamp counts as absent
parse_created_at_lenient(task) ==
    IF "created_at" \in DOMAIN task /\ task.created_at # ""
          /\ fromisoformat(task.created_at).ok
    THEN LET p == fromisoformat(task.created_at)
         IN  [exc |-> "none", present |-> TRUE, val |-> [tz |-> p.tz, t |-> p.t]]
    ELSE [exc |-> "none", present |-> FALSE, val |-> <<>>]

\* lines 116-118: [exc, present, val]
parse_created_at(task) ==
    IF "created_at" \in DOMAIN task /\ task.created_at # ""
    THEN LET p == fromisoformat(task.created_at)
         IN  IF p.ok
             THEN [exc |-> "none", present |-> TRUE, val |-> [tz |-> p.tz, t |-> p.t]]
             ELSE [exc |-> "ValueError", present |-> FALSE, val |-> <<>>]
    ELSE [exc |-> "none", present |-> FALSE, val |-> <<>>]

\* lines 120-128: the keyword arguments score_tasks passes to score_task
call_kwargs(task, created) ==
    LET base == [task_id        |-> Get(task, "id", ""),
                 title          |-> Get(task, "title", ""),
                 priority       |-> Get(task, "priority", 4),
                 complexity     |-> Get(task, "complexity", "medium"),
                 labels         |-> Get(task, "labels", <<>>),
                 blocking_count |-> Get(task, "blocking_count", 0)]
    IN  IF created.present THEN ("created_at" :> created.val) @@ base ELSE base

\* line 116 left out: a task without created_at is scored with the age of the
\* task before it
loop_body_stale_created_at(sc, task, clock) ==
    LET created == parse_created_at(task)
    IN  IF created.exc # "none"
        THEN [exc |-> created.exc, scored |-> sc]
        ELSE LET r == score_task(call_kwargs(task, created), clock)
             IN  IF r.exc # "none"
                 THEN [exc |-> r.exc, scored |-> sc]
                 ELSE IF created.present \/ sc = <<>>
                 THEN [exc |-> "none", scored |-> Append(sc, r.val)]
                 ELSE LET f == [r.val.factors EXCEPT !.age = sc[Len(sc)].factors.age]
                      IN  [exc |-> "none",
                           scored |-> Append(sc, [r.val EXCEPT
                                                    !.factors = f,
                                                    !.score = round2(total_score(f))])]

\* one iteration of the for loop: [exc, scored]
loop_body(sc, task, clock) ==
    LET created == parse_created_at(task)
    IN  IF created.exc # "none"
        THEN [exc |-> created.exc, scored |-> sc]
        ELSE LET r == score_task(call_kwargs(task, created), clock)
             IN  IF r.exc # "none"
                 THEN [exc |-> r.exc, scored |-> sc]
                 ELSE [exc |-> "none", scored |-> Append(sc, r.val)]

----------------------------------------------------------------------------
(* Inputs *)

Datetimes ==
    {[tz |-> FALSE, t |-> Now0 - d * HoursPerDay] : d \in {0, 10, 19, 20, MaxAgeDays}}
    \cup {[tz |-> FALSE, t |-> Now0 - 10 * HoursPerDay + 1],
          [tz |-> FALSE, t |-> Now0 + 12],
          [tz |-> FALSE, t |-> Now0 + 36],
          [tz |-> TRUE,  t |-> 0]}

LabelLists == {<<>>, <<"critical">>, <<"CRITICAL", "bug">>, <<"feature">>}

Complexities == {"low", "medium", "high", "epic"}

KwargsRequired ==
    {[task_id |-> "TASK-1", title |-> "Fix login bug", priority |-> p,
      complexity |-> c, blocking_count |-> b] :
        p \in (0 - NegRange)..MaxPriority, c \in Complexities,
        b \in (0 - NegRange)..MaxBlocking}

KwargsWithLabels ==
    KwargsRequired \cup {("labels" :> l) @@ k : l \in LabelLists, k \in KwargsRequired}

KwargsSet ==
    KwargsWithLabels
    \cup {("created_at" :> d) @@ k : d \in Datetimes, k \in KwargsWithLabels}

CreatedAtStrings ==
    {"", "garbage", "2026-01-01T01:00:00", "2026-01-01T00:00:00+00:00"}

Descriptor(id, title) ==
    [id |-> id, title |-> title, priority |-> 4, complexity |-> "high",
     labels |-> <<>>, blocking_count |-> 0]

Descriptors ==
    {Descriptor("A", "Fix login bug")}
    \cup {("created_at" :> s) @@ Descriptor("A", "Fix login bug") : s \in CreatedAtStrings}
    \cup {[Descriptor("A", "Fix login bug") EXCEPT !.labels = <<"CRITICAL", "bug">>]}
    \cup {Descriptor("B", "Add user profile page"),
          ("created_at" :> "2026-01-01T01:00:00") @@ Descriptor("B", "Add user profile page"),
          [id |-> "C"]}

ScoredTasks ==
    {[task_id |-> id, title |-> "", raw_priority |-> 4, score |-> s,
      factors |-> [k \in FactorNames |-> 0]] :
        id \in {"A", "B", "C"}, s \in {5000, 7000}}

SeqsUpTo(S, n) == UNION {[1..m -> S] : m \in 0..n}

----------------------------------------------------------------------------
(* The state machine *)

InitCommon ==
    /\ now = Now0
    /\ pc = "call"
    /\ scored = <<>>
    /\ reads = <<>>
    /\ ret = <<>>
    /\ exc = "none"

NoKwargs == [task_id |-> "", title |-> "", priority |-> 4]

Init ==
    /\ InitCommon
    /\ \/ /\ op = "score_task"
          /\ kwargs \in KwargsSet
          /\ tasks = <<>>
          /\ tasks_data = <<>>
       \/ /\ op = "rank_tasks"
          /\ kwargs = NoKwargs
          /\ tasks \in SeqsUpTo(ScoredTasks, MaxBatch)
          /\ tasks_data = <<>>
       \/ /\ op = "score_tasks"
          /\ kwargs = NoKwargs
          /\ tasks = <<>>
          /\ tasks_data \in SeqsUpTo(Descriptors, MaxBatch)

\* a direct call of PriorityScorer.score_task
ScoreTask ==
    /\ op = "score_task"
    /\ pc = "call"
    /\ LET r == score_task(kwargs, now)
       IN  IF r.exc # "none"
           THEN /\ pc' = "raised"
                /\ exc' = r.exc
                /\ ret' = ret
           ELSE /\ pc' = "returned"
                /\ exc' = exc
                /\ ret' = r.val
    /\ UNCHANGED <<op, kwargs, tasks, tasks_data, now, scored, reads>>

\* a direct call of PriorityScorer.rank_tasks
RankTasks ==
    /\ op = "rank_tasks"
    /\ pc = "call"
    /\ ret' = rank_tasks(tasks)
    /\ pc' = "returned"
    /\ UNCHANGED <<op, kwargs, tasks, tasks_data, now, scored, reads, exc>>

\* score_tasks, lines 112-113
ScoreTasksBegin ==
    /\ op = "score_tasks"
    /\ pc = "call"
    /\ scored' = <<>>
    /\ pc' = "loop"
    /\ UNCHANGED <<op, kwargs, tasks, tasks_data, now, reads, ret, exc>>

\* score_tasks, lines 115-136: one iteration of the for loop
ScoreTasksIter ==
    /\ pc = "loop"
    /\ Len(scored) < Len(tasks_data)
    /\ LET r == loop_body(scored, tasks_data[Len(scored) + 1], now)
       IN  IF r.exc # "none"
           THEN /\ pc' = "raised"
                /\ exc' = r.exc
                /\ UNCHANGED <<scored, reads>>
           ELSE /\ scored' = r.scored
                /\ reads' = Append(reads, now)
                /\ UNCHANGED <<pc, exc>>
    /\ UNCHANGED <<op, kwargs, tasks, tasks_data, now, ret>>

\* score_tasks, line 138
ScoreTasksReturn ==
    /\ pc = "loop"
    /\ Len(scored) = Len(tasks_data)
    /\ ret' = sorted_by_score_reverse(scored)
    /\ pc' = "returned"
    /\ UNCHANGED <<op, kwargs, tasks, tasks_data, now, scored, reads, exc>>

\* the wall clock advances while score_tasks runs
Tick ==
    /\ pc = "loop"
    /\ now < Now0 + MaxTicks
    /\ now' = now + 1
    /\ UNCHANGED <<op, kwargs, tasks, tasks_data, pc, scored, reads, ret, exc>>

Next ==
    \/ ScoreTask
    \/ RankTasks
    \/ ScoreTasksBegin
    \/ ScoreTasksIter
    \/ ScoreTasksReturn
    \/ Tick

Spec == Init /\ [][Next]_vars

----------------------------------------------------------------------------
(* What a state shows of the calls made so far *)

Range(seq) == {seq[n] : n \in 1..Len(seq)}

\* every completed score_task call: its keyword arguments, the clock value it
\* read and the ScoredTask it returned
Calls ==
    IF op = "score_task"
    THEN IF pc = "returned"
         THEN {[kw |-> kwargs, clock |-> now, rec |-> ret]}
         ELSE {}
    ELSE IF op = "score_tasks"
    THEN {[kw    |-> call_kwargs(tasks_data[j], parse_created_at(tasks_data[j])),
           clock |-> reads[j],
           rec   |-> scored[j]] : j \in 1..Len(scored)}
    ELSE {}

\* the ranked sequence a finished rank_tasks or score_tasks call returned,
\* with the sequence that was ranked
Ranked == pc = "returned" /\ op \in {"rank_tasks", "score_tasks"}

RankInput == IF op = "rank_tasks" THEN tasks ELSE scored

Descending(seq) == \A n \in 1..(Len(seq) - 1) : seq[n].score >= seq[n + 1].score

WithScore(seq, s) == LET Is(x) == x.score = s IN SelectSeq(seq, Is)

Ids(seq) == [n \in 1..Len(seq) |-> seq[n].task_id]

----------------------------------------------------------------------------
(* Claims *)

\* C1: the sequence returned by rank_tasks and by score_tasks is in descending
\* score order: every element's score is >= the score of the next element.
C1_DescendingOrder == Ranked => Descending(ret)

\* C1 witness: score_tasks returned three records whose order the sort changed.
C1_Witness ==
    /\ op = "score_tasks" /\ pc = "returned" /\ Len(ret) = 3
    /\ scored[1].score < scored[3].score
    /\ ret[1].score > ret[3].score

\* C2: ranking is stable: for every score value, the tasks of that score come
\* out of rank_tasks and score_tasks in the order in which they went in.
C2_StableRanking ==
    Ranked => \A x \in Range(RankInput) :
                  WithScore(ret, x.score) = WithScore(RankInput, x.score)

\* C2 witness: rank_tasks ranked [A, B, C] with scores [50, 50, 70] as [C, A, B].
C2_Witness ==
    /\ op = "rank_tasks" /\ pc = "returned"
    /\ Ids(tasks) = <<"A", "B", "C">>
    /\ [n \in 1..3 |-> tasks[n].score] = <<5000, 5000, 7000>>
    /\ Ids(ret) = <<"C", "A", "B">>

\* the weighted sum of a factors map with the weights 0.40, 0.20, 0.15, 0.15
\* and 0.10, in hundredths
WeightedSum100(f) ==
    40 * f.base_priority + 20 * f.age + 15 * f.complexity
        + 15 * f.dependencies + 10 * f.labels

IsScenario81(c) ==
    /\ c.kw.priority = 1
    /\ c.kw.complexity = "low"
    /\ Get(c.kw, "labels", <<>>) = <<"critical">>
    /\ c.kw.blocking_count = 3
    /\ "created_at" \in DOMAIN c.kw
    /\ ~c.kw.created_at.tz
    /\ c.clock - c.kw.created_at.t = 10 * HoursPerDay

\* C3: every reported score is the weighted sum of the five stored factors with
\* weights 0.40, 0.20, 0.15, 0.15, 0.10, the stored factors being the unweighted
\* values; priority 1, low, [critical], blocking 3, created 10 days ago has
\* factors 100, 50, 80, 60, 100 and score 81.00.
C3_WeightedSum ==
    \A c \in Calls :
        /\ DOMAIN c.rec.factors = FactorNames
        /\ c.rec.score = WeightedSum100(c.rec.factors)
        /\ c.rec.factors.complexity \in {30, 50, 80}
        /\ c.rec.factors.labels \in {0, 100}
        /\ IsScenario81(c) =>
              /\ c.rec.factors = [base_priority |-> 100, age |-> 50, complexity |-> 80,
                                  dependencies |-> 60, labels |-> 100]
              /\ c.rec.score = 8100

\* C3 witness: the 81.00 scenario was scored.
C3_Witness == \E c \in Calls : IsScenario81(c) /\ c.rec.score = 8100

IsScenarioLow(c) ==
    /\ c.kw.priority = 4
    /\ c.kw.complexity = "high"
    /\ Get(c.kw, "labels", <<>>) = <<>>
    /\ c.kw.blocking_count = 0
    /\ "created_at" \notin DOMAIN c.kw

\* C4 as stated: priority 4, complexity high, no labels, blocking count 0 and no
\* created_at is scored with factors 0, 0, 30, 0, 0 and score 4.50.
C4_Original ==
    \A c \in Calls :
        IsScenarioLow(c) =>
            /\ c.rec.factors = [base_priority |-> 0, age |-> 0, complexity |-> 30,
                                dependencies |-> 0, labels |-> 0]
            /\ c.rec.score = 450

\* C4 amended: priority 4, complexity high, no labels, blocking count 0 and no
\* created_at is scored with base_priority 25, age 0, complexity 30,
\* dependencies 0, labels 0 and score 14.50.
C4_Amended ==
    \A c \in Calls :
        IsScenarioLow(c) =>
            /\ c.rec.factors = [base_priority |-> 25, age |-> 0, complexity |-> 30,
                                dependencies |-> 0, labels |-> 0]
            /\ c.rec.score = 1450

\* C4 witness: score_tasks scored such a descriptor.
C4_Witness ==
    /\ op = "score_tasks"
    /\ \E c \in Calls : IsScenarioLow(c) /\ c.rec.score = 1450

Clamp(lo, hi, x) == IF x < lo THEN lo ELSE IF x > hi THEN hi ELSE x

\* C5 as stated: for every integer priority the base_priority factor is
\* (5 - priority) * 25 clamped into [0,100], never below 0 and never above 100.
C5_Original ==
    \A c \in Calls :
        /\ c.rec.factors.base_priority = Clamp(0, 100, (5 - c.kw.priority) * 25)
        /\ c.rec.factors.base_priority \in 0..100

\* C6 as stated: for every negative blocking_count the dependencies factor is 0,
\* never negative, and the score is not below that of the same task with
\* blocking_count 0.
C6_Original ==
    \A c \in Calls :
        c.kw.blocking_count < 0 =>
            /\ c.rec.factors.dependencies = 0
            /\ c.rec.score >= WeightedSum100([c.rec.factors EXCEPT !.dependencies = 0])

\* a created_at that is present in the descriptor and is no parseable timestamp
Unparseable(task) ==
    "created_at" \in DOMAIN task /\ ~fromisoformat(task.created_at).ok

\* C7 as stated: score_tasks never produces a record for a descriptor whose
\* created_at is present but unparseable (the empty string included), and never
\* returns normally for a batch holding one.
C7_Original ==
    op = "score_tasks" =>
        /\ \A j \in 1..Len(scored) : ~Unparseable(tasks_data[j])
        /\ pc = "returned" => \A j \in 1..Len(tasks_data) : ~Unparseable(tasks_data[j])

\* a created_at that is absent or parses to a naive timestamp
WellFormed(task) ==
    "created_at" \notin DOMAIN task
        \/ (fromisoformat(task.created_at).ok /\ ~fromisoformat(task.created_at).tz)

Finished == pc \in {"returned", "raised"}

Malformed(task) == Unparseable(task) /\ task.created_at # ""

Valid(task) == ~Unparseable(task)

Provenance(task) ==
    <<Get(task, "id", ""), Get(task, "title", ""), Get(task, "priority", 4)>>

RecordProvenance(rec) == <<rec.task_id, rec.title, rec.raw_priority>>

Count(seq, x, Key(_)) == Cardinality({n \in 1..Len(seq) : Key(seq[n]) = x})

\* C9 as stated: for every batch whose timestamps are all valid score_tasks
\* returns, with exactly one record per descriptor, each carrying its
\* descriptor's id, title and priority; an empty batch returns an empty sequence.
C9_Original ==
    (/\ op = "score_tasks" /\ Finished
     /\ \A j \in 1..Len(tasks_data) : Valid(tasks_data[j]))
    => /\ pc = "returned"
       /\ Len(ret) = Len(tasks_data)
       /\ \A j \in 1..Len(tasks_data) :
              Count(ret, Provenance(tasks_data[j]), RecordProvenance)
                  = Count(tasks_data, Provenance(tasks_data[j]), Provenance)

AgeDays(c) == (c.clock - c.kw.created_at.t) \div HoursPerDay

\* C11: saturation: the age factor is 100 for every task aged 20 days or more
\* and age_days * 5 below that; the dependencies factor is 100 for every
\* blocking_count of 5 or more and blocking_count * 20 below that.
C11_Saturation ==
    \A c \in Calls :
        /\ "created_at" \in DOMAIN c.kw =>
              c.rec.factors.age = IF AgeDays(c) >= 20 THEN 100 ELSE AgeDays(c) * 5
        /\ c.rec.factors.dependencies =
              IF c.kw.blocking_count >= 5 THEN 100 ELSE c.kw.blocking_count * 20

\* C11 witness: a task 21 days old with blocking_count 6 was scored with both
\* factors at 100.
C11_Witness ==
    \E c \in Calls :
        /\ "created_at" \in DOMAIN c.kw /\ AgeDays(c) > 20
        /\ c.kw.blocking_count > 5
        /\ c.rec.factors.age = 100 /\ c.rec.factors.dependencies = 100

\* the spellings of the urgent labels, in any case
UrgentSpellings ==
    {"urgent", "critical", "blocker", "hotfix", "CRITICAL", "Hotfix", "URGENT", "Blocker"}

HitsUrgent(kw) ==
    LET ls == Get(kw, "labels", <<>>)
    IN  \E n \in 1..Len(ls) : ls[n] \in UrgentSpellings

WithoutLabels(kw) == [k \in DOMAIN kw \ {"labels"} |-> kw[k]]

\* C12: the labels factor is 100 when a label is, in any case, one of urgent,
\* critical, blocker, hotfix, and 0 otherwise, absent and empty labels included;
\* two descriptors scored at the same clock value that differ only in their
\* labels have the same other four factors, and labels factors 100 apart when
\* one hits the urgent set and the other does not.
C12_LabelOverride ==
    /\ \A c \in Calls :
           c.rec.factors.labels = IF HitsUrgent(c.kw) THEN 100 ELSE 0
    /\ \A c, d \in Calls :
           (WithoutLabels(c.kw) = WithoutLabels(d.kw) /\ c.clock = d.clock) =>
               /\ \A k \in FactorNames \ {"labels"} :
                      c.rec.factors[k] = d.rec.factors[k]
               /\ (HitsUrgent(c.kw) /\ ~HitsUrgent(d.kw)) =>
                      /\ c.rec.factors.labels - d.rec.factors.labels = 100
                      /\ c.rec.score - d.rec.score = 1000

\* C12 witness: one batch held a descriptor labelled CRITICAL and the same
\* descriptor without labels, scored at one clock value, 100 apart in labels.
C12_Witness ==
    /\ op = "score_tasks"
    /\ \E c, d \in Calls :
           /\ WithoutLabels(c.kw) = WithoutLabels(d.kw) /\ c.clock = d.clock
           /\ c.kw.labels = <<"CRITICAL", "bug">> /\ d.kw.labels = <<>>
           /\ c.rec.factors.labels = 100 /\ d.rec.factors.labels = 0

\* C13 as stated: the stored age factor lies in [0,100] for every created_at and
\* clock value, is 0 when created_at is absent, and a created_at later than the
\* clock never puts the score below that of the same task without a timestamp.
C13_Original ==
    \A c \in Calls :
        /\ c.rec.factors.age \in 0..100
        /\ "created_at" \notin DOMAIN c.kw => c.rec.factors.age = 0
        /\ c.rec.score >= WeightedSum100([c.rec.factors EXCEPT !.age = 0])

====
